---- MODULE Spec2Model ----
(***************************************************************************)
(* Model of api/interaction.go: the client-side validation and request     *)
(* shaping done by RespondInteraction, EditInteractionResponse,            *)
(* FollowUpInteraction (and its alias CreateInteractionFollowup) and       *)
(* EditInteractionFollowup.                                                *)
(*                                                                         *)
(* A Go pointer is modelled as a sequence of length 0 (nil) or 1 (the      *)
(* pointee).  A Go slice is a record [isNil, elems]: a nil slice and an    *)
(* empty non-nil slice both have length 0 but compare differently to nil.  *)
(* Indices in errors and in the event log are 0-based, as in the source.   *)
(***************************************************************************)
EXTENDS Integers, Sequences, FiniteSets, TLC

\* ---------------------------------------------------------------- bounds
MaxEmbeds == 2
MaxFiles == 2

\* ------------------------------------------------------ program constants
MessageInteractionWithSource == 4
DeferredMessageUpdate == 6
UpdateMessage == 7
MaxEmbedSum == 6000

\* ------------------------------------------------------------ input sets
ResponseTypes == {MessageInteractionWithSource, DeferredMessageUpdate, UpdateMessage}
EmbedLengths == {2000, 3000, 4000}
FileNames == {"a.png", "b.png"}
Ops == {"RespondInteraction", "EditInteractionResponse", "CreateInteractionFollowup",
        "FollowUpInteraction", "EditInteractionFollowup"}

RECURSIVE SeqsUpTo(_, _)
SeqsUpTo(S, n) ==
    IF n = 0 THEN {<<>>}
    ELSE LET shorter == SeqsUpTo(S, n - 1)
         IN shorter \cup {Append(s, x) : s \in {t \in shorter : Len(t) = n - 1}, x \in S}

\* discord.Embed, reduced to what the handlers observe: whether Validate
\* accepts it, whether Validate has already normalised it, and its Length.
Embed == {e \in [valid : BOOLEAN, norm : BOOLEAN, len : EmbedLengths] : e.norm => e.valid}

\* option.NullableString = *NullableStringData{Val, Init}
NullableString == {<<>>} \cup {<<c>> : c \in [Val : {"", "hi"}, Init : BOOLEAN]}

\* *[]discord.Embed
EmbedSlice == {[isNil |-> TRUE, elems |-> <<>>]}
              \cup {[isNil |-> FALSE, elems |-> s] : s \in SeqsUpTo(Embed, MaxEmbeds)}
EmbedsPtr == {<<>>} \cup {<<s>> : s \in EmbedSlice}

\* *AllowedMentions, reduced to whether Verify accepts it
AllowedMentionsPtr == {<<>>} \cup {<<[ok |-> b]>> : b \in BOOLEAN}

\* InteractionResponseData / EditInteractionResponseData (validated fields)
ResponseData == [Content : NullableString, Embeds : EmbedsPtr,
                 AllowedMentions : AllowedMentionsPtr,
                 Files : SeqsUpTo(FileNames, MaxFiles)]

\* InteractionResponse: Type plus *InteractionResponseData
InteractionResponse == [Type : ResponseTypes, Data : {<<>>} \cup {<<d>> : d \in ResponseData}]

\* --------------------------------------------------------------- errors
NoErr == [kind |-> "nil", index |-> {}, Count |-> 0, Max |-> 0]
ErrEmptyMessage == [kind |-> "ErrEmptyMessage", index |-> {}, Count |-> 0, Max |-> 0]
AllowedMentionsError == [kind |-> "allowedMentions", index |-> {}, Count |-> 0, Max |-> 0]
EmbedErrorAt(i) == [kind |-> "embed", index |-> {i}, Count |-> 0, Max |-> 0]
EmbedError == [kind |-> "embed", index |-> {}, Count |-> 0, Max |-> 0]
OverboundError(count, max) == [kind |-> "Overbound", index |-> {}, Count |-> count, Max |-> max]
TransportError == [kind |-> "transport", index |-> {}, Count |-> 0, Max |-> 0]

ValidationKinds == {"ErrEmptyMessage", "allowedMentions", "embed", "Overbound"}

\* ------------------------------------------------- external collaborators
\* (*discord.Embed).Validate: reports an error or normalises the embed
EmbedValidate(e) == [ok |-> e.valid, embed |-> [e EXCEPT !.norm = TRUE]]

\* discord.Embed.Length
EmbedLength(e) == e.len

\* (*AllowedMentions).Verify
Verify(am) == am.ok

\* sendpart.Write: the payload JSON part first, then the files in list order
Write(files) == <<"payload_json">> \o files

\* sendpart.POST / sendpart.PATCH: one request, multipart iff the payload's
\* NeedsMultipart() is true (then WriteMultipart builds the body)
Do(method, url, needsMultipart, files) ==
    [method |-> method, url |-> url,
     encoding |-> IF needsMultipart THEN "multipart" ELSE "json",
     parts |-> IF needsMultipart THEN Write(files) ELSE <<"payload_json">>]

\* ------------------------------------------------------ encoding selection
\* variant of DataNeedsMultipart: a single file is not counted
DataNeedsMultipart_OffByOne(d) == Len(d.Files) > 1

\* InteractionResponseData.NeedsMultipart
DataNeedsMultipart(d) == Len(d.Files) > 0

\* InteractionResponse.NeedsMultipart
ResponseNeedsMultipart(resp) == resp.Data # <<>> /\ DataNeedsMultipart(resp.Data[1])

\* EditInteractionResponseData.NeedsMultipart
EditDataNeedsMultipart(data) == Len(data.Files) > 0

\* -------------------------------------------------------- emptiness rules
\* RespondInteraction, case MessageInteractionWithSource
RespondNewMessageEmpty(d) ==
    /\ (d.Content = <<>> \/ d.Content[1].Val = "")
    /\ (d.Embeds = <<>> \/ Len(d.Embeds[1].elems) = 0)
    /\ Len(d.Files) = 0

\* variant of RespondUpdateMessageEmpty: the attached files are not consulted
RespondUpdateMessageEmpty_IgnoreFiles(d) ==
    /\ (d.Content # <<>> /\ ~d.Content[1].Init)
    /\ (d.Embeds # <<>> /\ d.Embeds[1].isNil)

\* RespondInteraction, case UpdateMessage
RespondUpdateMessageEmpty(d) ==
    /\ (d.Content # <<>> /\ ~d.Content[1].Init)
    /\ (d.Embeds # <<>> /\ d.Embeds[1].isNil)
    /\ Len(d.Files) = 0

\* variant of FollowUpEmpty: only a nil content counts as unset
FollowUpEmpty_NilOnly(data) ==
    /\ data.Content = <<>>
    /\ (data.Embeds = <<>> \/ Len(data.Embeds[1].elems) = 0)
    /\ Len(data.Files) = 0

\* FollowUpInteraction
FollowUpEmpty(data) ==
    /\ (data.Content = <<>> \/ data.Content[1].Val = "")
    /\ (data.Embeds = <<>> \/ Len(data.Embeds[1].elems) = 0)
    /\ Len(data.Files) = 0

\* ------------------------------------------------------------ handlers
\* The outcome of a call: the returned error, the caller-supplied embed list
\* as the call leaves it, the collaborator calls made (in order) and the
\* requests handed to the transport.
Outcome(err, elems, log, wire) == [err |-> err, elems |-> elems, log |-> log, wire |-> wire]

\* the elements of the caller-supplied embed list (none for a nil pointer)
Elems(d) == IF d.Embeds = <<>> THEN <<>> ELSE d.Embeds[1].elems

\* what the transport collaborator is asked to do for one request
SendLog(method, needsMultipart) ==
    <<<<method>>>> \o (IF needsMultipart THEN <<<<"WriteMultipart">>>> ELSE <<>>)

\* the error a handler returns after its one request
SendResult(netOk) == IF netOk THEN NoErr ELSE TransportError

\* the AllowedMentions step shared by the handlers: nil is skipped
MentionsLog(d) == IF d.AllowedMentions # <<>> THEN <<<<"Verify">>>> ELSE <<>>
MentionsFail(d) == d.AllowedMentions # <<>> /\ ~Verify(d.AllowedMentions[1])

\* variant of RespondEmbeds: the budget test is sum >= 6000
RECURSIVE RespondEmbeds_AtLeast(_, _, _, _)
RespondEmbeds_AtLeast(elems, i, sum, log) ==
    IF i >= Len(elems) THEN [err |-> NoErr, elems |-> elems, log |-> log]
    ELSE LET v == EmbedValidate(elems[i + 1])
             log1 == Append(log, <<"Validate", i>>)
             sum1 == sum + EmbedLength(v.embed)
             log2 == Append(log1, <<"Length", i>>)
         IN IF ~v.ok
            THEN [err |-> EmbedErrorAt(i), elems |-> elems, log |-> log1]
            ELSE IF sum1 >= MaxEmbedSum
            THEN [err |-> OverboundError(sum1, MaxEmbedSum), elems |-> elems, log |-> log2]
            ELSE RespondEmbeds_AtLeast([elems EXCEPT ![i + 1] = v.embed], i + 1, sum1,
                                       Append(log2, <<"Store", i>>))

\* RespondInteraction: the range loop over *Embeds, from 0-based index i
\* with running sum `sum`
RECURSIVE RespondEmbeds(_, _, _, _)
RespondEmbeds(elems, i, sum, log) ==
    IF i >= Len(elems) THEN [err |-> NoErr, elems |-> elems, log |-> log]
    ELSE LET v == EmbedValidate(elems[i + 1])
             log1 == Append(log, <<"Validate", i>>)
             sum1 == sum + EmbedLength(v.embed)
             log2 == Append(log1, <<"Length", i>>)
         IN IF ~v.ok
            THEN [err |-> EmbedErrorAt(i), elems |-> elems, log |-> log1]
            ELSE IF sum1 > MaxEmbedSum
            THEN [err |-> OverboundError(sum1, MaxEmbedSum), elems |-> elems, log |-> log2]
            ELSE RespondEmbeds([elems EXCEPT ![i + 1] = v.embed], i + 1, sum1,
                        Append(log2, <<"Store", i>>))

\* EditInteractionResponse: the range loop over *Embeds, from 0-based index i
\* with running sum `sum`
RECURSIVE EditResponseEmbeds(_, _, _, _)
EditResponseEmbeds(elems, i, sum, log) ==
    IF i >= Len(elems) THEN [err |-> NoErr, elems |-> elems, log |-> log]
    ELSE LET v == EmbedValidate(elems[i + 1])
             log1 == Append(log, <<"Validate", i>>)
             sum1 == sum + EmbedLength(v.embed)
             log2 == Append(log1, <<"Length", i>>)
         IN IF ~v.ok
            THEN [err |-> EmbedError, elems |-> elems, log |-> log1]
            ELSE IF sum1 > MaxEmbedSum
            THEN [err |-> OverboundError(sum1, MaxEmbedSum), elems |-> elems, log |-> log2]
            ELSE EditResponseEmbeds([elems EXCEPT ![i + 1] = v.embed], i + 1, sum1,
                        Append(log2, <<"Store", i>>))

\* variant of FollowUpEmbeds: the validated embed is not stored back
RECURSIVE FollowUpEmbeds_NoStore(_, _, _, _)
FollowUpEmbeds_NoStore(elems, i, sum, log) ==
    IF i >= Len(elems) THEN [err |-> NoErr, elems |-> elems, log |-> log]
    ELSE LET v == EmbedValidate(elems[i + 1])
             log1 == Append(log, <<"Validate", i>>)
             sum1 == sum + EmbedLength(v.embed)
             log2 == Append(log1, <<"Length", i>>)
         IN IF ~v.ok
            THEN [err |-> EmbedErrorAt(i), elems |-> elems, log |-> log1]
            ELSE IF sum1 > MaxEmbedSum
            THEN [err |-> OverboundError(sum1, MaxEmbedSum), elems |-> elems, log |-> log2]
            ELSE FollowUpEmbeds_NoStore(elems, i + 1, sum1, log2)

\* FollowUpInteraction: the range loop over *Embeds, from 0-based index i
\* with running sum `sum`
RECURSIVE FollowUpEmbeds(_, _, _, _)
FollowUpEmbeds(elems, i, sum, log) ==
    IF i >= Len(elems) THEN [err |-> NoErr, elems |-> elems, log |-> log]
    ELSE LET v == EmbedValidate(elems[i + 1])
             log1 == Append(log, <<"Validate", i>>)
             sum1 == sum + EmbedLength(v.embed)
             log2 == Append(log1, <<"Length", i>>)
         IN IF ~v.ok
            THEN [err |-> EmbedErrorAt(i), elems |-> elems, log |-> log1]
            ELSE IF sum1 > MaxEmbedSum
            THEN [err |-> OverboundError(sum1, MaxEmbedSum), elems |-> elems, log |-> log2]
            ELSE FollowUpEmbeds([elems EXCEPT ![i + 1] = v.embed], i + 1, sum1,
                        Append(log2, <<"Store", i>>))

\* EditInteractionFollowup: the range loop over *Embeds, from 0-based index i
\* with running sum `sum`
RECURSIVE EditFollowupEmbeds(_, _, _, _)
EditFollowupEmbeds(elems, i, sum, log) ==
    IF i >= Len(elems) THEN [err |-> NoErr, elems |-> elems, log |-> log]
    ELSE LET v == EmbedValidate(elems[i + 1])
             log1 == Append(log, <<"Validate", i>>)
             sum1 == sum + EmbedLength(v.embed)
             log2 == Append(log1, <<"Length", i>>)
         IN IF ~v.ok
            THEN [err |-> EmbedError, elems |-> elems, log |-> log1]
            ELSE IF sum1 > MaxEmbedSum
            THEN [err |-> OverboundError(sum1, MaxEmbedSum), elems |-> elems, log |-> log2]
            ELSE EditFollowupEmbeds([elems EXCEPT ![i + 1] = v.embed], i + 1, sum1,
                        Append(log2, <<"Store", i>>))

\* RespondInteraction: the switch on resp.Type (other types check nothing)
RespondEmptyCheck(resp) ==
    LET d == resp.Data[1]
    IN \/ resp.Type = MessageInteractionWithSource /\ RespondNewMessageEmpty(d)
       \/ resp.Type = UpdateMessage /\ RespondUpdateMessageEmpty(d)

\* RespondInteraction
RespondInteraction(resp, netOk) ==
    LET send(elems, log) ==
            Outcome(SendResult(netOk), elems,
                    log \o SendLog("POST", ResponseNeedsMultipart(resp)),
                    <<Do("POST", "interactions/callback", ResponseNeedsMultipart(resp),
                         IF resp.Data # <<>> THEN resp.Data[1].Files ELSE <<>>)>>)
    IN IF resp.Data = <<>> THEN send(<<>>, <<>>)
       ELSE LET d == resp.Data[1]
            IN IF RespondEmptyCheck(resp)
               THEN Outcome(ErrEmptyMessage, Elems(d), <<>>, <<>>)
               ELSE IF MentionsFail(d)
               THEN Outcome(AllowedMentionsError, Elems(d), MentionsLog(d), <<>>)
               ELSE LET r == IF d.Embeds # <<>>
                             THEN RespondEmbeds(Elems(d), 0, 0, MentionsLog(d))
                             ELSE [err |-> NoErr, elems |-> <<>>, log |-> MentionsLog(d)]
                    IN IF r.err # NoErr
                       THEN Outcome(r.err, r.elems, r.log, <<>>)
                       ELSE send(r.elems, r.log)

\* EditInteractionResponse
EditInteractionResponse(data, netOk) ==
    IF MentionsFail(data)
    THEN Outcome(AllowedMentionsError, Elems(data), MentionsLog(data), <<>>)
    ELSE LET r == IF data.Embeds # <<>>
                  THEN EditResponseEmbeds(Elems(data), 0, 0, MentionsLog(data))
                  ELSE [err |-> NoErr, elems |-> <<>>, log |-> MentionsLog(data)]
         IN IF r.err # NoErr
            THEN Outcome(r.err, r.elems, r.log, <<>>)
            ELSE Outcome(SendResult(netOk), r.elems,
                         r.log \o SendLog("PATCH", EditDataNeedsMultipart(data)),
                         <<Do("PATCH", "webhooks/messages/@original",
                              EditDataNeedsMultipart(data), data.Files)>>)

\* variant of FollowUpInteraction: the mention policy is verified before the
\* emptiness check
FollowUpInteraction_MentionsFirst(data, netOk) ==
    IF MentionsFail(data)
    THEN Outcome(AllowedMentionsError, Elems(data), MentionsLog(data), <<>>)
    ELSE IF FollowUpEmpty(data)
    THEN Outcome(ErrEmptyMessage, Elems(data), MentionsLog(data), <<>>)
    ELSE LET r == IF data.Embeds # <<>>
                  THEN FollowUpEmbeds(Elems(data), 0, 0, MentionsLog(data))
                  ELSE [err |-> NoErr, elems |-> <<>>, log |-> MentionsLog(data)]
         IN IF r.err # NoErr
            THEN Outcome(r.err, r.elems, r.log, <<>>)
            ELSE Outcome(SendResult(netOk), r.elems,
                         r.log \o SendLog("POST", DataNeedsMultipart(data)),
                         <<Do("POST", "webhooks", DataNeedsMultipart(data), data.Files)>>)

\* FollowUpInteraction
FollowUpInteraction(data, netOk) ==
    IF FollowUpEmpty(data)
    THEN Outcome(ErrEmptyMessage, Elems(data), <<>>, <<>>)
    ELSE IF MentionsFail(data)
    THEN Outcome(AllowedMentionsError, Elems(data), MentionsLog(data), <<>>)
    ELSE LET r == IF data.Embeds # <<>>
                  THEN FollowUpEmbeds(Elems(data), 0, 0, MentionsLog(data))
                  ELSE [err |-> NoErr, elems |-> <<>>, log |-> MentionsLog(data)]
         IN IF r.err # NoErr
            THEN Outcome(r.err, r.elems, r.log, <<>>)
            ELSE Outcome(SendResult(netOk), r.elems,
                         r.log \o SendLog("POST", DataNeedsMultipart(data)),
                         <<Do("POST", "webhooks", DataNeedsMultipart(data), data.Files)>>)

\* CreateInteractionFollowup (deprecated alias)
CreateInteractionFollowup(data, netOk) == FollowUpInteraction(data, netOk)

\* variant of EditInteractionFollowup: the request is issued before the embed
\* batch is validated
EditInteractionFollowup_SendEarly(data, netOk) ==
    IF MentionsFail(data)
    THEN Outcome(AllowedMentionsError, Elems(data), MentionsLog(data), <<>>)
    ELSE LET sent == MentionsLog(data) \o SendLog("PATCH", EditDataNeedsMultipart(data))
             r == IF data.Embeds # <<>>
                  THEN EditFollowupEmbeds(Elems(data), 0, 0, sent)
                  ELSE [err |-> NoErr, elems |-> <<>>, log |-> sent]
         IN Outcome(IF r.err # NoErr THEN r.err ELSE SendResult(netOk), r.elems, r.log,
                    <<Do("PATCH", "webhooks/messages/id",
                         EditDataNeedsMultipart(data), data.Files)>>)

\* EditInteractionFollowup
EditInteractionFollowup(data, netOk) ==
    IF MentionsFail(data)
    THEN Outcome(AllowedMentionsError, Elems(data), MentionsLog(data), <<>>)
    ELSE LET r == IF data.Embeds # <<>>
                  THEN EditFollowupEmbeds(Elems(data), 0, 0, MentionsLog(data))
                  ELSE [err |-> NoErr, elems |-> <<>>, log |-> MentionsLog(data)]
         IN IF r.err # NoErr
            THEN Outcome(r.err, r.elems, r.log, <<>>)
            ELSE Outcome(SendResult(netOk), r.elems,
                         r.log \o SendLog("PATCH", EditDataNeedsMultipart(data)),
                         <<Do("PATCH", "webhooks/messages/id",
                              EditDataNeedsMultipart(data), data.Files)>>)

\* ------------------------------------------------------------ the machine
\* op, arg: the operation being called and the payload the caller built;
\* pc: "ready" before the call, "done" once it has returned;
\* out: what the call returned and did (meaningful when pc = "done").
VARIABLES op, arg, pc, out

vars == <<op, arg, pc, out>>

NoOutcome == Outcome(NoErr, <<>>, <<>>, <<>>)

Init ==
    /\ op \in Ops
    /\ arg \in IF op = "RespondInteraction" THEN InteractionResponse ELSE ResponseData
    /\ pc = "ready"
    /\ out = NoOutcome

Return(o) ==
    /\ pc' = "done"
    /\ out' = o
    /\ UNCHANGED <<op, arg>>

CallRespondInteraction ==
    /\ pc = "ready" /\ op = "RespondInteraction"
    /\ \E netOk \in BOOLEAN : Return(RespondInteraction(arg, netOk))

CallEditInteractionResponse ==
    /\ pc = "ready" /\ op = "EditInteractionResponse"
    /\ \E netOk \in BOOLEAN : Return(EditInteractionResponse(arg, netOk))

CallCreateInteractionFollowup ==
    /\ pc = "ready" /\ op = "CreateInteractionFollowup"
    /\ \E netOk \in BOOLEAN : Return(CreateInteractionFollowup(arg, netOk))

CallFollowUpInteraction ==
    /\ pc = "ready" /\ op = "FollowUpInteraction"
    /\ \E netOk \in BOOLEAN : Return(FollowUpInteraction(arg, netOk))

CallEditInteractionFollowup ==
    /\ pc = "ready" /\ op = "EditInteractionFollowup"
    /\ \E netOk \in BOOLEAN : Return(EditInteractionFollowup(arg, netOk))

Next ==
    \/ CallRespondInteraction
    \/ CallEditInteractionResponse
    \/ CallCreateInteractionFollowup
    \/ CallFollowUpInteraction
    \/ CallEditInteractionFollowup

Spec == Init /\ [][Next]_vars

TypeOK ==
    /\ op \in Ops
    /\ pc \in {"ready", "done"}

\* ------------------------------------------------------------ vocabulary
Done == pc = "done"

\* the call carries a data payload (only RespondInteraction may have none)
HasData == op # "RespondInteraction" \/ arg.Data # <<>>

\* the data payload of the call (defined when HasData)
Payload == IF op = "RespondInteraction" THEN arg.Data[1] ELSE arg

NewMessageCall ==
    \/ op \in {"FollowUpInteraction", "CreateInteractionFollowup"}
    \/ op = "RespondInteraction" /\ arg.Data # <<>> /\ arg.Type = MessageInteractionWithSource

UpdateMessageCall ==
    op = "RespondInteraction" /\ arg.Data # <<>> /\ arg.Type = UpdateMessage

ContentNonEmpty(d) == d.Content # <<>> /\ d.Content[1].Val # ""
ContentCleared(d) == d.Content # <<>> /\ ~d.Content[1].Init
EmbedsNonEmpty(d) == d.Embeds # <<>> /\ Len(d.Embeds[1].elems) > 0
EmbedsPresentEmpty(d) == d.Embeds # <<>> /\ Len(d.Embeds[1].elems) = 0
FilesNonEmpty(d) == Len(d.Files) > 0

ValidationFailed == out.err.kind \in ValidationKinds
ReachedEmbeds == out.err.kind \notin {"ErrEmptyMessage", "allowedMentions"}
BatchSucceeded == out.err.kind \in {"nil", "transport"}

\* events of the log
Events(kinds) == {k \in 1..Len(out.log) : out.log[k][1] \in kinds}
EmbedEvents == Events({"Validate", "Length", "Store"})
SendEvents == Events({"POST", "PATCH"})

\* the embed as its own validator leaves it, and the length measured on it
Normalized(e) == EmbedValidate(e).embed
RECURSIVE PrefixLength(_, _)
PrefixLength(es, k) == IF k = 0 THEN 0 ELSE PrefixLength(es, k - 1) + EmbedLength(Normalized(es[k]))
OverAt(es) == {k \in 1..Len(es) : PrefixLength(es, k) > 6000}
InvalidAt(es) == {k \in 1..Len(es) : ~EmbedValidate(es[k]).ok}
Least(S) == CHOOSE k \in S : \A j \in S : k <= j

\* ------------------------------------------------------------------ C1
\* C1: a new-message call (RespondInteraction with MessageInteractionWithSource
\* and non-nil Data, FollowUpInteraction, CreateInteractionFollowup) returns
\* ErrEmptyMessage if and only if content is not a non-empty string, the embed
\* list is nil or empty, and there is no file.
C1_NewMessageEmptyIff ==
    (Done /\ NewMessageCall) =>
        (out.err = ErrEmptyMessage
            <=> ~(ContentNonEmpty(Payload) \/ EmbedsNonEmpty(Payload) \/ FilesNonEmpty(Payload)))

\* an empty-string content with no embeds and no files was rejected
C1_Witness ==
    /\ Done /\ NewMessageCall
    /\ Payload.Content # <<>> /\ Payload.Content[1].Val = ""
    /\ Payload.Embeds = <<>> /\ Payload.Files = <<>>
    /\ out.err = ErrEmptyMessage

\* ------------------------------------------------------------------ C2
\* C2: RespondInteraction with UpdateMessage returns ErrEmptyMessage whenever
\* content is present-and-cleared (non-nil, empty value, not initialised),
\* embeds is a non-nil pointer to a zero-length list and no file is attached.
C2_UpdateClearedIsEmpty ==
    (/\ Done /\ UpdateMessageCall
     /\ ContentCleared(Payload) /\ Payload.Content[1].Val = ""
     /\ EmbedsPresentEmpty(Payload)
     /\ ~FilesNonEmpty(Payload))
        => out.err = ErrEmptyMessage

\* ------------------------------------------------------------------ C3
\* C3: RespondInteraction with UpdateMessage returns ErrEmptyMessage only if
\* content is present-but-cleared, embeds is present-but-empty and no file is
\* attached; so omitted content, omitted embeds or any file passes the check.
C3_UpdateEmptyOnlyIf ==
    (Done /\ UpdateMessageCall) =>
        /\ out.err = ErrEmptyMessage =>
               /\ ContentCleared(Payload)
               /\ EmbedsPresentEmpty(Payload)
               /\ ~FilesNonEmpty(Payload)
        /\ (Payload.Content = <<>> \/ Payload.Embeds = <<>> \/ FilesNonEmpty(Payload))
               => out.err # ErrEmptyMessage

\* content and embeds both omitted, zero files: not rejected as empty
C3_Witness ==
    /\ Done /\ UpdateMessageCall
    /\ Payload.Content = <<>> /\ Payload.Embeds = <<>> /\ Payload.Files = <<>>
    /\ out.err # ErrEmptyMessage

\* ------------------------------------------------------------------ C4
\* C4: a call that returns a validation error sends nothing; a call whose
\* validation succeeds sends exactly one request, after every validation step
\* (Verify of a non-nil policy, Validate/Length/Store of every embed) is done.
C4_SendOnceAfterValidation ==
    Done =>
        IF ValidationFailed
        THEN Len(out.wire) = 0 /\ SendEvents = {}
        ELSE /\ Len(out.wire) = 1
             /\ Cardinality(SendEvents) = 1
             /\ \A s \in SendEvents :
                    \A k \in Events({"Verify", "Validate", "Length", "Store"}) : k < s
             /\ HasData =>
                    /\ Payload.AllowedMentions # <<>> => Events({"Verify"}) # {}
                    /\ \A i \in 0..(Len(Elems(Payload)) - 1) :
                           \E k \in 1..Len(out.log) : out.log[k] = <<"Store", i>>

\* a request was sent after a policy and two embeds were validated
C4_Witness ==
    /\ Done /\ HasData
    /\ Len(out.wire) = 1
    /\ Payload.AllowedMentions # <<>>
    /\ Len(Elems(Payload)) >= 2

C6_EmbedErrorCarriesIndex ==
    (/\ Done /\ HasData /\ ReachedEmbeds
     /\ InvalidAt(Elems(Payload)) # {}
     /\ \A j \in OverAt(Elems(Payload)) : j > Least(InvalidAt(Elems(Payload))))
        => LET k == Least(InvalidAt(Elems(Payload))) - 1
           IN /\ out.err.kind = "embed"
              /\ out.err.index = {k}
              /\ \A e \in EmbedEvents : out.log[e][2] <= k

\* ------------------------------------------------------------------ C7
\* C7: after a call whose embed batch validation succeeds, the caller's embed
\* list has its original length and holds at every index the normalized
\* result of validating the embed originally at that index.
C7_WriteBackInPlace ==
    (Done /\ HasData /\ Payload.Embeds # <<>> /\ BatchSucceeded)
        => /\ Len(out.elems) = Len(Elems(Payload))
           /\ \A i \in 1..Len(out.elems) : out.elems[i] = Normalized(Elems(Payload)[i])

\* a validated batch of two different embeds, one of which was rewritten
C7_Witness ==
    /\ Done /\ HasData /\ Payload.Embeds # <<>> /\ BatchSucceeded
    /\ Len(out.elems) = 2
    /\ Elems(Payload)[1].len # Elems(Payload)[2].len
    /\ ~Elems(Payload)[1].norm /\ out.elems[1].norm

\* ------------------------------------------------------------------ C8
\* C8: the request is multipart if and only if the payload's file list is
\* non-empty (never for a RespondInteraction with nil Data, whose multipart
\* writer is not invoked); a multipart body is the payload JSON followed by
\* the files in their list order.
C8_EncodingByFiles ==
    (Done /\ Len(out.wire) = 1) =>
        LET files == IF HasData THEN Payload.Files ELSE <<>>
            req == out.wire[1]
        IN /\ req.encoding = "multipart" <=> Len(files) > 0
           /\ req.encoding = "json" <=> Len(files) = 0
           /\ req.encoding = "multipart" => req.parts = <<"payload_json">> \o files
           /\ req.encoding = "json" => req.parts = <<"payload_json">>
           /\ ~HasData => Events({"WriteMultipart"}) = {}

\* a multipart request carrying two different files in order
C8_Witness ==
    /\ Done /\ HasData /\ Len(out.wire) = 1
    /\ Len(Payload.Files) = 2 /\ Payload.Files[1] # Payload.Files[2]
    /\ out.wire[1].encoding = "multipart"

\* ------------------------------------------------------------------ C9
\* C9: checks run in the order emptiness, mention policy, embed batch, send,
\* stopping at the first failure: an empty payload with an invalid policy
\* yields ErrEmptyMessage; an invalid policy with an invalid or over-budget
\* embed list yields the allowed-mentions error, with no embed validated,
\* measured or written back.
EmptinessFails ==
    \/ op \in {"FollowUpInteraction", "CreateInteractionFollowup"} /\ FollowUpEmpty(Payload)
    \/ op = "RespondInteraction" /\ RespondEmptyCheck(arg)

C9_FixedOrder ==
    (Done /\ HasData) =>
        /\ EmptinessFails => out.err = ErrEmptyMessage /\ out.log = <<>>
        /\ (~EmptinessFails /\ MentionsFail(Payload)) =>
               /\ out.err = AllowedMentionsError
               /\ EmbedEvents = {}
               /\ out.elems = Elems(Payload)
        /\ \A v \in Events({"Verify"}) : \A e \in EmbedEvents \cup SendEvents : v < e
        /\ \A e \in EmbedEvents : \A s \in SendEvents : e < s

\* an invalid policy together with an invalid embed gave the mentions error
C9_Witness ==
    /\ Done /\ HasData
    /\ MentionsFail(Payload)
    /\ InvalidAt(Elems(Payload)) # {}
    /\ out.err = AllowedMentionsError

\* ------------------------------------------------------------------ C10
\* C10: whenever a call returns a validation error, the caller's payload,
\* every entry of the caller-supplied embed list included, is as it was
\* before the call.
C10_NoPartialSideEffects ==
    (Done /\ HasData /\ ValidationFailed) => out.elems = Elems(Payload)

====
